---- MODULE Spec2Model ----
(***************************************************************************)
(* A model of the Staatsblad Monitor scraper                               *)
(* (src/backend/tools/staatsblad_scraper.py).                              *)
(*                                                                         *)
(* Python strings are TLA+ strings, taken apart character by character     *)
(* with Len, SubSeq and \o.  A Python dict is a function whose domain is   *)
(* its set of keys, a list is a sequence, None is <<>> and an optional     *)
(* value v is <<v>>.  Every operation is one call: pc = "call" holds the   *)
(* arguments in input, the action runs the whole method and leaves what    *)
(* it returns in result.                                                   *)
(***************************************************************************)
EXTENDS Integers, Sequences, FiniteSets, TLC

VARIABLES pc, input, result

vars == <<pc, input, result>>

None == <<>>

Some(v) == <<v>>

-----------------------------------------------------------------------------
(* Strings: the str methods and the regular expressions the scraper uses.  *)

Char(s, i) == SubSeq(s, i, i)

Whitespace == {" ", "\t", "\n", "\r", "\f"}

Digits == {"0", "1", "2", "3", "4", "5", "6", "7", "8", "9"}

UpperLetters == "ABCDEFGHIJKLMNOPQRSTUVWXYZ"

LowerLetters == "abcdefghijklmnopqrstuvwxyz"

LowerTable ==
    [c \in {Char(UpperLetters, i) : i \in 1..Len(UpperLetters)} |->
        Char(LowerLetters, CHOOSE i \in 1..Len(UpperLetters) : Char(UpperLetters, i) = c)]

LowerChar(c) == IF c \in DOMAIN LowerTable THEN LowerTable[c] ELSE c

RECURSIVE lower(_)
lower(s) == IF s = "" THEN "" ELSE LowerChar(Head(s)) \o lower(Tail(s))

RECURSIVE lstrip(_)
lstrip(s) == IF s # "" /\ Head(s) \in Whitespace THEN lstrip(Tail(s)) ELSE s

RECURSIVE rstrip(_)
rstrip(s) ==
    IF s # "" /\ Char(s, Len(s)) \in Whitespace
    THEN rstrip(SubSeq(s, 1, Len(s) - 1))
    ELSE s

strip(s) == rstrip(lstrip(s))

\* s[a-1:b], cut at the ends of s
Slice(s, a, b) ==
    LET last == IF b > Len(s) THEN Len(s) ELSE b
    IN  IF a < 1 \/ a > last THEN "" ELSE SubSeq(s, a, last)

startswith(s, p) == Len(p) <= Len(s) /\ SubSeq(s, 1, Len(p)) = p

endswith(s, p) == Len(p) <= Len(s) /\ SubSeq(s, Len(s) - Len(p) + 1, Len(s)) = p

\* sub in s
contains(s, sub) ==
    \E i \in 1..(Len(s) - Len(sub) + 1) : SubSeq(s, i, i + Len(sub) - 1) = sub

AllChars(s, set) == \A i \in 1..Len(s) : Char(s, i) \in set

-----------------------------------------------------------------------------
(* _clean_company_number: re.sub(r'[.\s]', '', company_number)             *)

BadCleanFirstOnly(company_number) ==
    LET hits == {i \in 1..Len(company_number) :
                    Char(company_number, i) \in ({"."} \cup Whitespace)}
    IN  IF hits = {} THEN company_number
        ELSE LET i == CHOOSE j \in hits : \A k \in hits : j <= k
             IN  SubSeq(company_number, 1, i - 1)
                 \o SubSeq(company_number, i + 1, Len(company_number))

RECURSIVE BadCleanDotsOnly(_)
BadCleanDotsOnly(company_number) ==
    IF company_number = "" THEN ""
    ELSE (IF Head(company_number) = "." THEN "" ELSE Head(company_number))
         \o BadCleanDotsOnly(Tail(company_number))

RECURSIVE _clean_company_number(_)
_clean_company_number(company_number) ==
    IF company_number = "" THEN ""
    ELSE (IF Head(company_number) \in ({"."} \cup Whitespace)
          THEN "" ELSE Head(company_number))
         \o _clean_company_number(Tail(company_number))

(* The identifiers a caller may pass: every string of at most MaxIdLen     *)
(* characters over digits, the separators, a letter and a dash.            *)
MaxIdLen == 3

IdAlphabet == {"0", "7", ".", " ", "\t", "B", "-"}

RECURSIVE StringsUpTo(_, _)
StringsUpTo(alphabet, n) ==
    IF n = 0 THEN {""}
    ELSE LET shorter == StringsUpTo(alphabet, n - 1)
         IN  shorter \cup {s \o c : s \in shorter, c \in alphabet}

Identifiers == StringsUpTo(IdAlphabet, MaxIdLen)

InitClean ==
    /\ pc = "call"
    /\ input \in Identifiers
    /\ result = None

\* clean = self._clean_company_number(company_number)
Clean ==
    /\ pc = "call"
    /\ result' = _clean_company_number(input)
    /\ pc' = "done"
    /\ UNCHANGED input

\* the normalized identifier is normalized again; input keeps the raw
\* identifier and the first output
CleanAgain ==
    /\ pc = "done"
    /\ input' = <<input, result>>
    /\ result' = _clean_company_number(result)
    /\ pc' = "redone"

NextClean == Clean \/ CleanAgain

SpecClean == InitClean /\ [][NextClean]_vars

-----------------------------------------------------------------------------
(* The parsed page (BeautifulSoup): the sequence of its elements in         *)
(* document order.  An element has a tag, its own leading text node ("" is  *)
(* no text node), an href attribute (None when absent), the rows of a       *)
(* table (each row the texts of its cells) and the li children of a list    *)
(* or section.                                                              *)

Element(tag, text) ==
    [tag |-> tag, text |-> text, href |-> None, rows |-> <<>>, items |-> <<>>]

Table(rows) ==
    [tag |-> "table", text |-> "", href |-> None, rows |-> rows, items |-> <<>>]

Section(tag, text, items) ==
    [tag |-> tag, text |-> text, href |-> None, rows |-> <<>>, items |-> items]

Anchor(href, text) ==
    [tag |-> "a", text |-> text, href |-> href, rows |-> <<>>, items |-> <<>>]

RECURSIVE Flatten(_)
Flatten(seqs) == IF seqs = <<>> THEN <<>> ELSE Head(seqs) \o Flatten(Tail(seqs))

RECURSIVE IndicesFrom(_, _, _)
IndicesFrom(n, keep, from) ==
    IF from > n THEN <<>>
    ELSE (IF from \in keep THEN <<from>> ELSE <<>>) \o IndicesFrom(n, keep, from + 1)

\* the indices i of 1..n with Keep(i), in increasing order
SelectIndices(n, Keep(_), from) ==
    IndicesFrom(n, {i \in from..n : Keep(i)}, from)

\* soup.find_all(tag): the elements with that tag, in document order
find_all(soup, tag) ==
    LET idx == SelectIndices(Len(soup), LAMBDA i : soup[i].tag = tag, 1)
    IN  [k \in 1..Len(idx) |-> soup[idx[k]]]

\* soup.find(tag): the first element with that tag, or None
find(soup, tag) ==
    LET all == find_all(soup, tag) IN IF all = <<>> THEN None ELSE Some(all[1])

(* The text nodes of one element, in document order: its own text, then     *)
(* the texts of its cells row by row, then the texts of its li children.    *)
(* kind tells the parent of the node: the element itself, a td or an li.    *)
TextNodesOf(soup, b) ==
    LET e == soup[b]
        own == IF e.text = "" THEN <<>>
               ELSE <<[b |-> b, kind |-> "own", r |-> 0, c |-> 0, s |-> e.text]>>
        cells == Flatten([r \in 1..Len(e.rows) |->
                    Flatten([c \in 1..Len(e.rows[r]) |->
                        IF e.rows[r][c] = "" THEN <<>>
                        ELSE <<[b |-> b, kind |-> "td", r |-> r, c |-> c,
                                s |-> e.rows[r][c]]>>])])
        lis == Flatten([i \in 1..Len(e.items) |->
                    IF e.items[i] = "" THEN <<>>
                    ELSE <<[b |-> b, kind |-> "li", r |-> i, c |-> 0,
                            s |-> e.items[i]]>>])
    IN  own \o cells \o lis

TextNodes(soup) == Flatten([b \in 1..Len(soup) |-> TextNodesOf(soup, b)])

\* re.compile('A|B', re.I).search(s)
search_ignorecase(alternatives, s) ==
    LET folded == lower(s) IN \E a \in alternatives : contains(folded, lower(a))

\* soup.find(string=re.compile(..., re.I)): the first matching text node
find_string(soup, alternatives) ==
    LET nodes == TextNodes(soup)
        idx == SelectIndices(Len(nodes),
                   LAMBDA i : search_ignorecase(alternatives, nodes[i].s), 1)
    IN  IF idx = <<>> THEN None ELSE Some(nodes[idx[1]])

\* soup.get_text(): every text node, concatenated
RECURSIVE Join(_)
Join(strs) == IF strs = <<>> THEN "" ELSE Head(strs) \o Join(Tail(strs))

get_text(soup) ==
    LET nodes == TextNodes(soup) IN Join([i \in 1..Len(nodes) |-> nodes[i].s])

\* tr.get_text(strip=True): the stripped texts of the cells, concatenated
row_text(row) == Join([c \in 1..Len(row) |-> strip(row[c])])

(* A Python dict                                                           *)
EmptyDict == <<>>

Put(d, k, v) == [x \in DOMAIN d \cup {k} |-> IF x = k THEN v ELSE d[x]]

\* d.update(e)
Update(d, e) ==
    [x \in DOMAIN d \cup DOMAIN e |-> IF x \in DOMAIN e THEN e[x] ELSE d[x]]

(* What a call or a try body ends with: an exception (exc) or none, and     *)
(* the value returned, or the local result built when it ended (ret).       *)
Return(v) == [exc |-> None, ret |-> v]

Raise(message, partial) == [exc |-> Some(message), ret |-> partial]

\* try: body  except Exception: log a warning;  return the local result
Contained(body) == Return(body.ret)

-----------------------------------------------------------------------------
(* _extract_basic_info                                                      *)

key_mapping ==
    ("vennootschapsnaam" :> "company_name")
    @@ ("vennootschapsvorm" :> "legal_form")
    @@ ("ondernemingsnummer" :> "company_number")
    @@ ("status" :> "status")
    @@ ("juridische situatie" :> "legal_situation")
    @@ ("adres" :> "address")
    @@ ("laatste publicatie" :> "last_publication")
    @@ ("laatste jaarrekening" :> "last_annual_report")

\* the key a lower-cased label is stored under
TranslateKey(key) == IF key \in DOMAIN key_mapping THEN key_mapping[key] ELSE key

BadRowIntoFirstWins(info, cells) ==
    IF Len(cells) >= 2 /\ TranslateKey(lower(strip(cells[1]))) \notin DOMAIN info
    THEN Put(info, TranslateKey(lower(strip(cells[1]))), strip(cells[2]))
    ELSE info

\* lines 156-176: one row of a table
RowInto(info, cells) ==
    IF Len(cells) >= 2
    THEN Put(info, TranslateKey(lower(strip(cells[1]))), strip(cells[2]))
    ELSE info

RECURSIVE RowsInto(_, _)
RowsInto(info, rows) ==
    IF rows = <<>> THEN info ELSE RowsInto(RowInto(info, Head(rows)), Tail(rows))

\* soup.find('h1') or soup.find('h2') or soup.find('title')
name_elem(soup) ==
    IF find(soup, "h1") # None THEN find(soup, "h1")
    ELSE IF find(soup, "h2") # None THEN find(soup, "h2")
    ELSE find(soup, "title")

AddressPattern == {"Marnixlaan", "Brussel", "Antwerpen", "Gent"}

(* The try body.  fault = 0: no exception.  fault = k: an exception is      *)
(* raised when the k-th table is reached, or, with fewer than k tables, at  *)
(* the address search.                                                      *)
RECURSIVE BasicTables(_, _, _, _)
BasicTables(info, tables, k, fault) ==
    IF tables = <<>> THEN [exc |-> None, ret |-> info]
    ELSE IF fault = k THEN Raise("basic info", info)
    ELSE BasicTables(RowsInto(info, Head(tables).rows), Tail(tables), k + 1, fault)

BasicInfoBody(soup, fault) ==
    LET heading == name_elem(soup)
        info0 == IF heading # None
                 THEN Put(EmptyDict, "company_name", strip(heading[1].text))
                 ELSE EmptyDict
        after == BasicTables(info0, find_all(soup, "table"), 1, fault)
        address_elem == find_string(soup, AddressPattern)
    IN  IF after.exc # None THEN after
        ELSE IF fault > 0 THEN Raise("basic info", after.ret)
        ELSE IF address_elem # None
             THEN Return(Put(after.ret, "full_address", strip(address_elem[1].s)))
             ELSE Return(after.ret)

BadBasicInfoPropagates(soup, fault) ==
    LET body == BasicInfoBody(soup, fault)
    IN  IF body.exc # None THEN Raise(body.exc[1], None) ELSE Return(body.ret)

_extract_basic_info(soup, fault) == Contained(BasicInfoBody(soup, fault))

(* The pages _extract_basic_info is run on: an optional heading, then at  *)
(* most MaxRows table rows in one table or split over two.                 *)
MaxRows == 3

RECURSIVE SeqsUpTo(_, _)
SeqsUpTo(S, n) ==
    IF n = 0 THEN {<<>>}
    ELSE LET shorter == SeqsUpTo(S, n - 1)
         IN  shorter \cup {Append(q, x) : q \in shorter, x \in S}

\* the rows in one table (k = 0) or split after the k-th row into two
TablesFrom(rows, k) ==
    IF k = 0 THEN (IF rows = <<>> THEN <<>> ELSE <<Table(rows)>>)
    ELSE <<Table(SubSeq(rows, 1, k)), Table(SubSeq(rows, k + 1, Len(rows)))>>

TableSoups(rowChoices, maxRows) ==
    {TablesFrom(rk[1], rk[2]) : rk \in
        {x \in SeqsUpTo(rowChoices, maxRows) \X (0..maxRows) : x[2] <= Len(x[1])}}

HeadingChoices ==
    { <<>>,
      <<Element("h1", " Acme ")>>,
      <<Element("title", "Titel"), Element("h2", "Gent Holding")>>,
      <<Element("title", "Titel")>> }

BasicRowChoices ==
    { <<"Vennootschapsnaam", "Acme NV">>,
      <<" VENNOOTSCHAPSNAAM\n", " Beta BV ">>,
      <<"company_name", "Gamma">>,
      <<"Status">>,
      <<"Status", "Actief", "x">>,
      <<"Adres", "Marnixlaan 1">> }

BasicSoups == {h \o t : h \in HeadingChoices, t \in TableSoups(BasicRowChoices, MaxRows)}

InitBasic ==
    /\ pc = "call"
    /\ input \in [soup : BasicSoups, fault : {0}]
    /\ result = None

\* data.update(self._extract_basic_info(soup))
ExtractBasicInfo ==
    /\ pc = "call"
    /\ result' = _extract_basic_info(input.soup, input.fault)
    /\ pc' = "done"
    /\ UNCHANGED input

NextBasic == ExtractBasicInfo

SpecBasic == InitBasic /\ [][NextBasic]_vars

-----------------------------------------------------------------------------
(* _extract_financial_data                                                  *)

FinancialKeywords == {"activa", "brutomarge", "bedrijfswinst", "eigen vermogen", "schulden"}

\* ' '.join(parts)
RECURSIVE JoinWith(_, _)
JoinWith(sep, parts) ==
    IF parts = <<>> THEN ""
    ELSE IF Len(parts) = 1 THEN parts[1]
    ELSE parts[1] \o sep \o JoinWith(sep, Tail(parts))

\* lines 200-203: a keyword occurs in the joined text of the first 5 cells
is_financial_table(table) ==
    LET headers == Flatten(table.rows)
        first5 == SubSeq(headers, 1, IF Len(headers) < 5 THEN Len(headers) ELSE 5)
        header_text == JoinWith(" ", [i \in 1..Len(first5) |-> strip(first5[i])])
        folded == lower(header_text)
    IN  \E keyword \in FinancialKeywords : contains(folded, keyword)

\* lines 210-218
financial_year(cells) ==
    [year_end |-> strip(cells[1]),
     assets |-> strip(cells[2]),
     gross_margin |-> strip(cells[3]),
     operating_profit |-> strip(cells[4]),
     taxes |-> strip(cells[5]),
     equity |-> strip(cells[6]),
     debts |-> IF Len(cells) > 6 THEN strip(cells[7]) ELSE ""]

BadFinancialRowsKeepHeader(financial_data, rows) ==
    financial_data \o
    Flatten([r \in 1..Len(rows) |->
        IF Len(rows[r]) >= 6 THEN <<financial_year(rows[r])>> ELSE <<>>])

\* lines 204-221: the rows of a financial table after its first
FinancialRows(financial_data, rows) ==
    financial_data \o
    Flatten([r \in 1..(Len(rows) - 1) |->
        IF Len(rows[r + 1]) >= 6 THEN <<financial_year(rows[r + 1])>> ELSE <<>>])

(* The try body.  fault = k > 0: an exception is raised when the k-th      *)
(* table is reached.                                                        *)
RECURSIVE FinancialTables(_, _, _, _)
FinancialTables(financial_data, tables, k, fault) ==
    IF tables = <<>> THEN Return(financial_data)
    ELSE IF fault = k THEN Raise("financial data", financial_data)
    ELSE FinancialTables(
            IF is_financial_table(Head(tables))
            THEN FinancialRows(financial_data, Head(tables).rows)
            ELSE financial_data,
            Tail(tables), k + 1, fault)

FinancialDataBody(soup, fault) ==
    FinancialTables(<<>>, find_all(soup, "table"), 1, fault)

_extract_financial_data(soup, fault) == Contained(FinancialDataBody(soup, fault))

(* The pages _extract_financial_data is run on: at most MaxFinRows rows,   *)
(* with 2, 5, 6 and 7 cells, in one table or split over two.               *)
MaxFinRows == 4

FinancialRowChoices ==
    { <<"Jaar", "Activa", "Brutomarge", "Bedrijfswinst", "Belastingen", "Eigen Vermogen", "Schulden">>,
      <<"Naam", "Waarde">>,
      <<"2023-12-31", "1000", "200", "50", "10", "500">>,
      <<" 2022-12-31 ", "900", "180", "40", "9", "450", " 300\n">>,
      <<"2021-12-31", "800", "160", "30", "8">> }

FinancialSoups == TableSoups(FinancialRowChoices, MaxFinRows)

InitFinancial ==
    /\ pc = "call"
    /\ input \in [soup : FinancialSoups, fault : {0}]
    /\ result = None

\* data['financial_data'] = self._extract_financial_data(soup)
ExtractFinancialData ==
    /\ pc = "call"
    /\ result' = _extract_financial_data(input.soup, input.fault)
    /\ pc' = "done"
    /\ UNCHANGED input

NextFinancial == ExtractFinancialData

SpecFinancial == InitFinancial /\ [][NextFinancial]_vars

-----------------------------------------------------------------------------
(* Elements after and below a text node's parent                            *)

Take(seq, n) == SubSeq(seq, 1, IF Len(seq) < n THEN Len(seq) ELSE n)

Max(S) == CHOOSE x \in S : \A y \in S : y <= x

Min(S) == CHOOSE x \in S : \A y \in S : x <= y

(* The tr and li elements of element b from row fromRow and item fromItem  *)
(* on, each with its get_text(strip=True).                                  *)
TrLiOf(soup, b, fromRow, fromItem, tags) ==
    LET e == soup[b]
        trs == IF "tr" \in tags
               THEN [k \in 1..(Len(e.rows) - fromRow + 1) |->
                        [tag |-> "tr", text |-> row_text(e.rows[fromRow + k - 1])]]
               ELSE <<>>
        lis == IF "li" \in tags
               THEN [k \in 1..(Len(e.items) - fromItem + 1) |->
                        [tag |-> "li", text |-> strip(e.items[fromItem + k - 1])]]
               ELSE <<>>
    IN  trs \o lis

(* parent.find_all_next(tags): the tr and li elements that start after the *)
(* parent of text node `node` starts, in document order: what is left of   *)
(* the node's own element, then every later element.                        *)
find_all_next(soup, node, tags) ==
    LET rest == IF node.kind = "own" THEN TrLiOf(soup, node.b, 1, 1, tags)
                ELSE IF node.kind = "td" THEN TrLiOf(soup, node.b, node.r + 1, 1, tags)
                ELSE TrLiOf(soup, node.b, Len(soup[node.b].rows) + 1, node.r + 1, tags)
        later == Flatten([k \in 1..(Len(soup) - node.b) |->
                    TrLiOf(soup, node.b + k, 1, 1, tags)])
    IN  rest \o later

\* parent.find_all(['li', 'tr']): the tr and li elements inside the parent
find_all_inside(soup, node, tags) ==
    IF node.kind = "own" THEN TrLiOf(soup, node.b, 1, 1, tags) ELSE <<>>

\* the text nodes inside the parent of `node`
TextNodesInside(soup, node) ==
    IF node.kind = "own" THEN TextNodesOf(soup, node.b) ELSE <<node>>

-----------------------------------------------------------------------------
(* _extract_activities and _extract_nace_code                               *)

ActivitiesPattern == {"Activiteiten", "NACE"}

ActivitiesLimit == 10

\* re.search(r'\((\d{4,5})\)', activity_text) matches at i: its group(1)
nace_match_at(s, i) ==
    IF Char(s, i) # "(" THEN None
    ELSE LET n == CHOOSE k \in 0..Len(s) :
                    /\ \A j \in 1..k : i + j <= Len(s) /\ Char(s, i + j) \in Digits
                    /\ ~ (i + k + 1 <= Len(s) /\ Char(s, i + k + 1) \in Digits)
         IN  IF n \in {4, 5} /\ i + n + 1 <= Len(s) /\ Char(s, i + n + 1) = ")"
             THEN Some(SubSeq(s, i + 1, i + n))
             ELSE None

BadNaceLastGroup(activity_text) ==
    LET hits == {i \in 1..Len(activity_text) : nace_match_at(activity_text, i) # None}
    IN  IF hits = {} THEN None ELSE nace_match_at(activity_text, Max(hits))

_extract_nace_code(activity_text) ==
    LET hits == {i \in 1..Len(activity_text) : nace_match_at(activity_text, i) # None}
    IN  IF hits = {} THEN None ELSE nace_match_at(activity_text, Min(hits))

RECURSIVE ActivityItems(_, _, _, _)
ActivityItems(activities, items, k, fault) ==
    IF items = <<>> THEN Return(activities)
    ELSE IF fault = k THEN Raise("activities", activities)
    ELSE LET activity_text == Head(items).text
         IN  ActivityItems(
                IF activity_text # "" /\ ~ startswith(activity_text, "(")
                THEN Append(activities, [activity |-> activity_text,
                                         nace_code |-> _extract_nace_code(activity_text)])
                ELSE activities,
                Tail(items), k + 1, fault)

\* The try body.  fault = k > 0: an exception is raised at the k-th item.
ActivitiesBody(soup, fault) ==
    LET activities_section == find_string(soup, ActivitiesPattern)
    IN  IF activities_section = None THEN Return(<<>>)
        ELSE ActivityItems(<<>>,
                Take(find_all_next(soup, activities_section[1], {"li"}), ActivitiesLimit),
                1, fault)

_extract_activities(soup, fault) == Contained(ActivitiesBody(soup, fault))

-----------------------------------------------------------------------------
(* _extract_publications                                                    *)

PublicationsPattern == {"Publicaties Belgisch Staatsblad"}

PublicationsLimit == 200

\* \d{2}-\d{2}-\d{4} matches s[i .. i+9]
IsDateAt(s, i) ==
    /\ i >= 1
    /\ i + 9 <= Len(s)
    /\ \A j \in {0, 1, 3, 4, 6, 7, 8, 9} : Char(s, i + j) \in Digits
    /\ Char(s, i + 2) = "-"
    /\ Char(s, i + 5) = "-"

RECURSIVE RunLength(_, _, _, _)
\* the number of consecutive characters from s[j] on that are in `set`
\* (member = TRUE) or not in it (member = FALSE)
RunLength(s, j, set, member) ==
    IF j <= Len(s) /\ ((Char(s, j) \in set) = member)
    THEN 1 + RunLength(s, j + 1, set, member)
    ELSE 0

(* (\d{2}-\d{2}-\d{4})\s+(.+) matched at i: \s+ takes as many whitespace   *)
(* characters as leave (.+) a character that is not a newline, and (.+)    *)
(* runs to the end of that line.                                           *)
date_type_match_at(s, i) ==
    IF ~ IsDateAt(s, i) THEN None
    ELSE LET n == RunLength(s, i + 10, Whitespace, TRUE)
             ks == {k \in 1..n : i + 10 + k <= Len(s) /\ Char(s, i + 10 + k) # "\n"}
         IN  IF ks = {} THEN None
             ELSE LET start == i + 10 + Max(ks)
                      len == RunLength(s, start, {"\n"}, FALSE)
                  IN  Some([date |-> SubSeq(s, i, i + 9),
                            rest |-> SubSeq(s, start, start + len - 1)])

\* re.search(r'(\d{2}-\d{2}-\d{4})\s+(.+)', entry_text): the leftmost match
date_type_search(entry_text) ==
    LET hits == {i \in 1..Len(entry_text) : date_type_match_at(entry_text, i) # None}
    IN  IF hits = {} THEN None ELSE date_type_match_at(entry_text, Min(hits))

RECURSIVE PublicationEntries(_, _, _, _)
PublicationEntries(publications, entries, k, fault) ==
    IF entries = <<>> THEN Return(publications)
    ELSE IF fault = k THEN Raise("publications", publications)
    ELSE LET entry_text == Head(entries).text
             date_type_match == date_type_search(entry_text)
         IN  PublicationEntries(
                IF date_type_match # None
                THEN Append(publications, [date |-> date_type_match[1].date,
                                           type |-> strip(date_type_match[1].rest),
                                           full_text |-> entry_text])
                ELSE publications,
                Tail(entries), k + 1, fault)

\* The try body.  fault = k > 0: an exception is raised at the k-th entry.
PublicationsBody(soup, fault) ==
    LET publications_section == find_string(soup, PublicationsPattern)
    IN  IF publications_section = None THEN Return(<<>>)
        ELSE PublicationEntries(<<>>,
                Take(find_all_next(soup, publications_section[1], {"tr", "li"}),
                     PublicationsLimit),
                1, fault)

_extract_publications(soup, fault) == Contained(PublicationsBody(soup, fault))

-----------------------------------------------------------------------------
(* _extract_directors                                                       *)

BadDirectorsPatternPrefix == {"Bestuur", "Direct"}

DirectorsPattern == {"Bestuurders", "Directors"}

RegistrationPattern ==
    {"Enkel toegankelijk voor geregistreerde gebruikers",
     "Only accessible for registered users"}

\* lines 302-306
default_directors_info ==
    [available |-> FALSE,
     requires_registration |-> TRUE,
     message |-> "Directors information requires registration"]

SelectSeq2(seq, Keep(_)) ==
    LET idx == SelectIndices(Len(seq), LAMBDA i : Keep(seq[i]), 1)
    IN  [k \in 1..Len(idx) |-> seq[idx[k]]]

(* The try body.  fault = 1: an exception is raised by the marker search;  *)
(* fault = 2: by the reading of the names, after available was set.        *)
DirectorsBody(soup, fault) ==
    LET directors_info == default_directors_info
        directors_section == find_string(soup, DirectorsPattern)
    IN  IF fault = 1 THEN Raise("directors", directors_info)
        ELSE IF directors_section = None THEN Return(directors_info)
        ELSE LET inside == TextNodesInside(soup, directors_section[1])
                 registration_msg ==
                    \E i \in 1..Len(inside) :
                        search_ignorecase(RegistrationPattern, inside[i].s)
                 directors_list == find_all_inside(soup, directors_section[1], {"li", "tr"})
                 texts == [i \in 1..Len(directors_list) |-> directors_list[i].text]
             IN  IF registration_msg
                 THEN Return(Put(directors_info, "message",
                                 "Directors information requires registration"))
                 ELSE IF directors_list = <<>> THEN Return(directors_info)
                 ELSE IF fault = 2
                      THEN Raise("directors", Put(directors_info, "available", TRUE))
                 ELSE Return(Put(Put(directors_info, "available", TRUE),
                                 "directors", SelectSeq2(texts, LAMBDA t : t # "")))

_extract_directors(soup, fault) == Contained(DirectorsBody(soup, fault))

-----------------------------------------------------------------------------
(* _extract_pdf_links, _extract_filename_from_url, _classify_pdf_type       *)

base_url == "https://staatsbladmonitor.be"

\* pdf_patterns but r'\.pdf$': the keywords searched for
pdf_keywords == {"jaarrekening", "financial", "statement", "verslag", "publicatie"}

\* any(re.search(pattern, s) for pattern in pdf_patterns); $ also matches
\* before a newline that ends the string
matches_pdf_pattern(s) ==
    \/ endswith(s, ".pdf")
    \/ endswith(s, ".pdf\n")
    \/ \E keyword \in pdf_keywords : contains(s, keyword)

\* the indices of the characters of s equal to c
IndicesOf(s, c) == {i \in 1..Len(s) : Char(s, i) = c}

\* lines 401-407
_extract_filename_from_url(url) ==
    LET slashes == IndicesOf(url, "/")
        segment == IF slashes = {} THEN url ELSE SubSeq(url, Max(slashes) + 1, Len(url))
        marks == IndicesOf(segment, "?")
        filename == IF marks = {} THEN segment ELSE SubSeq(segment, 1, Min(marks) - 1)
    IN  IF endswith(filename, ".pdf") THEN filename ELSE filename \o ".pdf"

BadClassifyReportFirst(link_text, url) ==
    LET text_lower == lower(link_text)
        url_lower == lower(url)
        any(keywords) ==
            \E keyword \in keywords : contains(text_lower, keyword) \/ contains(url_lower, keyword)
    IN  IF any({"verslag", "report"}) THEN "report"
        ELSE IF any({"jaarrekening", "annual", "financial"}) THEN "annual_report"
        ELSE IF any({"statuten", "articles", "constitution"}) THEN "articles_of_association"
        ELSE IF any({"publicatie", "publication", "gazette"}) THEN "official_publication"
        ELSE IF any({"balans", "balance"}) THEN "balance_sheet"
        ELSE "document"

\* lines 415-429
_classify_pdf_type(link_text, url) ==
    LET text_lower == lower(link_text)
        url_lower == lower(url)
        any(keywords) ==
            \E keyword \in keywords : contains(text_lower, keyword) \/ contains(url_lower, keyword)
    IN  IF any({"jaarrekening", "annual", "financial"}) THEN "annual_report"
        ELSE IF any({"statuten", "articles", "constitution"}) THEN "articles_of_association"
        ELSE IF any({"publicatie", "publication", "gazette"}) THEN "official_publication"
        ELSE IF any({"verslag", "report"}) THEN "report"
        ELSE IF any({"balans", "balance"}) THEN "balance_sheet"
        ELSE "document"

\* lines 351-374: one anchor that has an href
AnchorInto(pdf_links, link) ==
    LET href == lower(link.href[1])
        link_text == lower(strip(link.text))
        is_pdf == \/ matches_pdf_pattern(href)
                  \/ matches_pdf_pattern(link_text)
                  \/ endswith(href, ".pdf")
        full_url == IF startswith(href, "/") THEN base_url \o href
                    ELSE IF startswith(href, "http") THEN href
                    ELSE base_url \o "/" \o href
    IN  IF is_pdf
        THEN Append(pdf_links, [title |-> strip(link.text),
                                url |-> full_url,
                                filename |-> _extract_filename_from_url(full_url),
                                type |-> _classify_pdf_type(link_text, href)])
        ELSE pdf_links

(* https?://[^\s]+\.pdf matched at i: the index of the match's last        *)
(* character, 0 when there is no match.  [^\s]+ runs to the next           *)
(* whitespace and gives back until ".pdf" follows it.                      *)
pdf_url_end(text, i) ==
    LET p == IF Slice(text, i, i + 7) = "https://" THEN 8
             ELSE IF Slice(text, i, i + 6) = "http://" THEN 7
             ELSE 0
        run_end == i + p - 1 + RunLength(text, i + p, Whitespace, FALSE)
        ends == {e \in (i + p + 4)..run_end : SubSeq(text, e - 3, e) = ".pdf"}
    IN  IF p = 0 \/ ends = {} THEN 0 ELSE Max(ends)

RECURSIVE findall_pdf_urls(_, _)
\* re.findall(r'https?://[^\s]+\.pdf', text_content), scanning from i: the
\* leftmost match from i on, then the matches after its end
findall_pdf_urls(text, i) ==
    LET starts == {j \in i..Len(text) : pdf_url_end(text, j) # 0}
    IN  IF starts = {} THEN <<>>
        ELSE <<SubSeq(text, Min(starts), pdf_url_end(text, Min(starts)))>>
             \o findall_pdf_urls(text, pdf_url_end(text, Min(starts)) + 1)

RECURSIVE PdfAnchors(_, _, _, _)
PdfAnchors(pdf_links, links, k, fault) ==
    IF links = <<>> THEN Return(pdf_links)
    ELSE IF fault = k THEN Raise("pdf links", pdf_links)
    ELSE PdfAnchors(AnchorInto(pdf_links, Head(links)), Tail(links), k + 1, fault)

RECURSIVE PdfTextUrls(_, _)
\* lines 380-388
PdfTextUrls(pdf_links, pdf_urls) ==
    IF pdf_urls = <<>> THEN pdf_links
    ELSE LET url == Head(pdf_urls)
         IN  PdfTextUrls(
                IF \A i \in 1..Len(pdf_links) : pdf_links[i].url # url
                THEN Append(pdf_links,
                        [title |-> "PDF Document - " \o _extract_filename_from_url(url),
                         url |-> url,
                         filename |-> _extract_filename_from_url(url),
                         type |-> _classify_pdf_type("", url)])
                ELSE pdf_links,
                Tail(pdf_urls))

\* soup.find_all('a', href=True)
links_with_href(soup) == SelectSeq2(find_all(soup, "a"), LAMBDA a : a.href # None)

(* The try body.  fault = k > 0: an exception is raised at the k-th        *)
(* anchor, or, with fewer than k anchors, by the scan of the text.         *)
PdfLinksBody(soup, fault) ==
    LET anchors == PdfAnchors(<<>>, links_with_href(soup), 1, fault)
    IN  IF anchors.exc # None THEN anchors
        ELSE IF fault > 0 THEN Raise("pdf links", anchors.ret)
        ELSE Return(PdfTextUrls(anchors.ret, findall_pdf_urls(get_text(soup), 1)))

_extract_pdf_links(soup, fault) == Contained(PdfLinksBody(soup, fault))

(* The pages _extract_pdf_links is run on: at most MaxAnchors anchors and  *)
(* at most MaxParagraphs paragraphs of text.                               *)
MaxAnchors == 2

MaxParagraphs == 2

AnchorChoices ==
    { Anchor(Some("/docs/jaarrekening2023.pdf"), "Annual report"),
      Anchor(Some("https://x.be/A.pdf"), " Doc "),
      Anchor(Some("https://x.be/b.pdf"), "Statuten"),
      Anchor(Some("doc.pdf"), ""),
      Anchor(Some("/over"), "Verslag 2020"),
      Anchor(None, "publicatie") }

ParagraphChoices ==
    { Element("p", "https://x.be/A.pdf"),
      Element("p", "zie https://x.be/b.pdf en "),
      Element("p", "https://staatsbladmonitor.be/doc.pdf?v=2.pdf.bak"),
      Element("p", "geen http:// link.pdf") }

PdfSoups ==
    {a \o t : a \in SeqsUpTo(AnchorChoices, MaxAnchors),
              t \in SeqsUpTo(ParagraphChoices, MaxParagraphs)}

InitPdf ==
    /\ pc = "call"
    /\ input \in [soup : PdfSoups, fault : {0}]
    /\ result = None

\* data['pdf_links'] = self._extract_pdf_links(soup)
ExtractPdfLinks ==
    /\ pc = "call"
    /\ result' = _extract_pdf_links(input.soup, input.fault)
    /\ pc' = "done"
    /\ UNCHANGED input

NextPdf == ExtractPdfLinks

SpecPdf == InitPdf /\ [][NextPdf]_vars

-----------------------------------------------------------------------------
(* The pages _extract_publications is run on: at most MaxPubEntries         *)
(* entries, before, after or beside the section marker.                     *)
MaxPubEntries == 2

PubEntryTexts ==
    {prefix \o date \o sep \o rest :
        prefix \in {"", "Akte "}, date \in {"12-03-2021", "2-03-2021"},
        sep \in {" ", ""}, rest \in {"Ontslag", "Statuten\nNV "}}
    \cup {"112-03-2021 \n Benoeming"}

PublicationSoups ==
    LET marker == "Publicaties Belgisch Staatsblad"
        last == Table(<< <<"01-02-2020 ", "Oprichting">>, <<" 01-02-2020 Oprichting">> >>)
    IN  UNION {
            { <<Element("h3", marker), Section("ul", "", items)>>,
              <<Section("ul", "", items)>>,
              <<Section("div", "publicaties belgisch staatsblad:", items)>>,
              <<Section("ul", "", <<marker>> \o items)>>,
              <<Section("ul", "", items), Element("h3", marker), last>> }
            : items \in SeqsUpTo(PubEntryTexts, MaxPubEntries)}

InitPublications ==
    /\ pc = "call"
    /\ input \in [soup : PublicationSoups, fault : {0}]
    /\ result = None

\* data['publications'] = self._extract_publications(soup)
ExtractPublications ==
    /\ pc = "call"
    /\ result' = _extract_publications(input.soup, input.fault)
    /\ pc' = "done"
    /\ UNCHANGED input

NextPublications == ExtractPublications

SpecPublications == InitPublications /\ [][NextPublications]_vars

-----------------------------------------------------------------------------
(* The pages _extract_directors is run on: at most MaxDirectors li          *)
(* elements in a section with or without the marker and the notice.         *)
MaxDirectors == 2

DirectorItemTexts == {"Jan Peeters", " ", "", " An Maes\n"}

DirectorSoups ==
    UNION {
        { <<Section("ul", "", items)>>,
          <<Section("div", "Bestuur en directie", items)>>,
          <<Element("h3", "Bestuurders"), Section("ul", "", items)>>,
          <<Section("div", "BESTUURDERS", items)>>,
          <<Section("div", "Directors", <<"Only accessible for registered users">> \o items)>>,
          <<Table(<< <<"Bestuurders", "zie lijst">> >>), Section("ul", "", items)>>,
          <<Section("ul", "", items \o <<"Directors: 2">>)>> }
        : items \in SeqsUpTo(DirectorItemTexts, MaxDirectors)}

InitDirectors ==
    /\ pc = "call"
    /\ input \in [soup : DirectorSoups, fault : 0..2]
    /\ result = None

\* data['directors'] = self._extract_directors(soup)
ExtractDirectors ==
    /\ pc = "call"
    /\ result' = _extract_directors(input.soup, input.fault)
    /\ pc' = "done"
    /\ UNCHANGED input

NextDirectors == ExtractDirectors

SpecDirectors == InitDirectors /\ [][NextDirectors]_vars

-----------------------------------------------------------------------------
(* _parse_company_page and search_company                                   *)

Extractors == {"basic", "financial", "activities", "publications", "directors", "pdf"}

(* Lines 114-137.  Every extractor is called in turn; an exception that    *)
(* leaves one of them leaves _parse_company_page too.                      *)
ParsedPage(calls, company_number, now) ==
    IF \E i \in 1..Len(calls) : calls[i].exc # None
    THEN Raise(calls[Min({i \in 1..Len(calls) : calls[i].exc # None})].exc[1], None)
    ELSE Return(Put(Put(Put(Put(Put(
             Update([company_number |-> company_number, scraped_at |-> now],
                    calls[1].ret),
             "financial_data", calls[2].ret),
             "activities", calls[3].ret),
             "publications", calls[4].ret),
             "directors", calls[5].ret),
             "pdf_links", calls[6].ret))

_parse_company_page(soup, company_number, faults, now) ==
    ParsedPage(<<_extract_basic_info(soup, faults["basic"]),
                 _extract_financial_data(soup, faults["financial"]),
                 _extract_activities(soup, faults["activities"]),
                 _extract_publications(soup, faults["publications"]),
                 _extract_directors(soup, faults["directors"]),
                 _extract_pdf_links(soup, faults["pdf"])>>,
               company_number, now)

\* lines 85-100: the except clause
error_envelope(company_number, message, now) ==
    [success |-> FALSE,
     error |-> message,
     data |-> [status |-> "ERROR", company_number |-> company_number],
     metadata |-> [source |-> "Staatsblad Monitor",
                   country |-> "Belgium",
                   request_time |-> now,
                   company_number_input |-> company_number]]

\* response.raise_for_status(): the message of its HTTPError, None when it
\* raises nothing
raise_for_status(response) ==
    IF response.status >= 400 /\ response.status < 500 THEN Some("Client Error")
    ELSE IF response.status >= 500 /\ response.status < 600 THEN Some("Server Error")
    ELSE None

\* lines 72-83, and the except clause for an exception out of the parse
Envelope(page, company_number, clean_number, now) ==
    IF page.exc # None
    THEN Return(error_envelope(company_number, page.exc[1], now))
    ELSE Return([success |-> TRUE,
                 data |-> page.ret,
                 metadata |-> [source |-> "Staatsblad Monitor",
                               country |-> "Belgium",
                               request_time |-> now,
                               company_number_input |-> company_number,
                               company_number_clean |-> clean_number,
                               url |-> base_url \o "/bedrijfsfiche.html?ondernemingsnummer="
                                                \o clean_number]])

\* lines 60-83: the response's body is parsed and the page extracted
Parsed(response, company_number, clean_number, faults, now) ==
    IF ~ response.content.parses
    THEN Return(error_envelope(company_number, "parse error", now))
    ELSE Envelope(_parse_company_page(response.content.soup, clean_number, faults, now),
                  company_number, clean_number, now)

(* world is what the call meets: the outcome of http_client.get (an        *)
(* exception, or a response with a status and a body), whether the body    *)
(* parses and into which page, the clock, and the fault of each extractor. *)
BadSearchNoStatusCheck(company_number, world) ==
    IF world.response.exc # None
    THEN Return(error_envelope(company_number, world.response.exc[1], world.now))
    ELSE Parsed(world.response, company_number, _clean_company_number(company_number),
                world.faults, world.now)

\* lines 44-100
search_company(company_number, world) ==
    IF world.response.exc # None
    THEN Return(error_envelope(company_number, world.response.exc[1], world.now))
    ELSE IF raise_for_status(world.response) # None
    THEN Return(error_envelope(company_number, raise_for_status(world.response)[1],
                               world.now))
    ELSE Parsed(world.response, company_number, _clean_company_number(company_number),
                world.faults, world.now)

(* The pages search_company is run on: one choice for each part of the     *)
(* company page.                                                           *)
PageHeadings == { <<>>, <<Element("title", "Staatsblad Monitor"), Element("h1", " Acme NV ")>> }

PageBasicTables ==
    { <<>>,
      <<Table(<< <<"Vennootschapsnaam", "Acme Brussel NV">>,
                 <<"Ondernemingsnummer", "0403.200.393">>,
                 <<"financial_data", "zie tabel">> >>)>> }

PageFinancialTables ==
    { <<>>,
      <<Table(<< <<"Jaar", "Activa", "Brutomarge", "Bedrijfswinst", "Belastingen",
                   "Eigen Vermogen", "Schulden">>,
                 <<"2023-12-31", "1000", "200", "50", "10", "500">>,
                 <<"2022-12-31", "900", "180", "40", "9", "450", "300">> >>),
        Table(<< <<"Jaar", "Schulden">>, <<"2021", "1", "2", "3", "4", "5", "6">> >>)>> }

PageLists ==
    { <<>>,
      <<Element("h3", "Activiteiten (NACE)"),
        Section("ul", "", <<"Groothandel (46900)", "(nevenactiviteit)">>),
        Element("h3", "Publicaties Belgisch Staatsblad"),
        Section("ul", "", <<"12-03-2021 Ontslag", "Akte 01-02-2020 Benoeming">>)>> }

PageDirectors ==
    { <<>>,
      <<Section("div", "Bestuurders", <<"Jan Peeters", " An Maes ">>)>>,
      <<Section("div", "Directors", <<"Only accessible for registered users">>)>> }

PageLinks ==
    { <<>>,
      <<Anchor(Some("/docs/jaarrekening2023.pdf"), "Annual report"),
        Anchor(Some("https://x.be/A.pdf"), "Doc"),
        Element("p", "Download: https://x.be/A.pdf ")>> }

\* the pages a call is run on: the empty page, and the pages that lack at most
\* one of their parts
Missing(parts) == Cardinality({i \in 1..Len(parts) : parts[i] = <<>>})

PageSoups ==
    {h \o b \o f \o l \o d \o a :
        <<h, b, f, l, d, a>> \in
            {parts \in PageHeadings \X PageBasicTables \X PageFinancialTables
                        \X PageLists \X PageDirectors \X PageLinks :
                Missing(parts) \in {0, 1, 6}}}

\* the largest fault point of an extractor the calls are run with
MaxFault == 2

NoFaults == [x \in Extractors |-> 0]

\* at most one extractor meets an exception
FaultChoices ==
    {NoFaults} \cup
    {[NoFaults EXCEPT ![x] = k] : x \in Extractors, k \in 1..MaxFault}

Responses ==
    {[exc |-> Some("Connection refused"), status |-> 0,
      content |-> [parses |-> FALSE, soup |-> <<>>]]}
    \cup {[exc |-> None, status |-> st, content |-> [parses |-> TRUE, soup |-> <<>>]]
            : st \in {404, 500}}
    \cup {[exc |-> None, status |-> 200, content |-> [parses |-> FALSE, soup |-> <<>>]]}
    \cup {[exc |-> None, status |-> 200, content |-> [parses |-> TRUE, soup |-> page]]
            : page \in PageSoups}

CompanyNumbers == {"0403.200.393", "BE 0403 200"}

Worlds ==
    {[response |-> r, faults |-> f, now |-> "2024-01-01T00:00:00"] :
        r \in Responses, f \in FaultChoices}

Init ==
    /\ pc = "call"
    /\ input \in [company_number : CompanyNumbers, world : Worlds]
    /\ result = None

SearchCompany ==
    /\ pc = "call"
    /\ result' = search_company(input.company_number, input.world)
    /\ pc' = "done"
    /\ UNCHANGED input

Next == SearchCompany

Spec == Init /\ [][Next]_vars

-----------------------------------------------------------------------------
(* The link texts and URLs _classify_pdf_type is called with, lines 371    *)
(* and 386: the text of an anchor (empty for a URL found in the text) and  *)
(* its href or URL.                                                        *)
LinkTextChoices ==
    { "", "doc", "Annual report", "JAARREKENING 2023", "Statuten", "balance sheet",
      "Publicatie verslag", "Gazette articles", "Financial Balans", "Verslag", "rapport" }

LinkUrlChoices ==
    { "/over", "/docs/jaarrekening2023.pdf", "https://x.be/A.pdf", "https://x.be/Report.PDF",
      "/statuten/balans.pdf", "/publication?id=7", "/docs/constitution-annual.pdf",
      "/BALANCE.pdf", "/verslag-publicatie.pdf", "/d.pdf" }

InitClassify ==
    /\ pc = "call"
    /\ input \in [link_text : LinkTextChoices, url : LinkUrlChoices]
    /\ result = None

\* 'type': self._classify_pdf_type(link_text, href)
ClassifyPdfType ==
    /\ pc = "call"
    /\ result' = _classify_pdf_type(input.link_text, input.url)
    /\ pc' = "done"
    /\ UNCHANGED input

NextClassify == ClassifyPdfType

SpecClassify == InitClassify /\ [][NextClassify]_vars

-----------------------------------------------------------------------------
(* validate_vat_tool (src/backend/tools/vat_tool.py)                        *)

UpperTable ==
    [c \in {Char(LowerLetters, i) : i \in 1..Len(LowerLetters)} |->
        Char(UpperLetters, CHOOSE i \in 1..Len(LowerLetters) : Char(LowerLetters, i) = c)]

UpperChar(c) == IF c \in DOMAIN UpperTable THEN UpperTable[c] ELSE c

RECURSIVE upper(_)
upper(s) == IF s = "" THEN "" ELSE UpperChar(Head(s)) \o upper(Tail(s))

\* line 11: re.sub(r'[\s\.\-]', '', vat_number)
RECURSIVE clean_vat_number(_)
clean_vat_number(vat_number) ==
    IF vat_number = "" THEN ""
    ELSE (IF Head(vat_number) \in ({".", "-"} \cup Whitespace)
          THEN "" ELSE Head(vat_number))
         \o clean_vat_number(Tail(vat_number))

(* A JSON value: kind is str, num, null, list or dict; v is the text of a  *)
(* string or number; items is the dict's items.                            *)
JsonStr(s) == [kind |-> "str", v |-> s, items |-> EmptyDict]

JsonNum(s) == [kind |-> "num", v |-> s, items |-> EmptyDict]

JsonNull == [kind |-> "null", v |-> "", items |-> EmptyDict]

JsonList == [kind |-> "list", v |-> "", items |-> EmptyDict]

JsonDict(items) == [kind |-> "dict", v |-> "", items |-> items]

(* json.loads on the documents the tool is run on: what it returns, or     *)
(* the JSONDecodeError it raises.                                          *)
json_loads ==
    ("" :> Raise("Expecting value: line 1 column 1 (char 0)", None))
    @@ ("BE 0403200393" :> Raise("Expecting value: line 1 column 1 (char 0)", None))
    @@ ("{\"country_code\": \"be\"" :>
            Raise("Expecting ',' delimiter: line 1 column 23 (char 22)", None))
    @@ ("null" :> Return(JsonNull))
    @@ ("[\"be\", \"0403200393\"]" :> Return(JsonList))
    @@ ("\"be\"" :> Return(JsonStr("be")))
    @@ ("{}" :> Return(JsonDict(EmptyDict)))
    @@ ("{\"country_code\": \"be\"}" :> Return(JsonDict("country_code" :> JsonStr("be"))))
    @@ ("{\"vat_number\": \"0403200393\"}" :>
            Return(JsonDict("vat_number" :> JsonStr("0403200393"))))
    @@ ("{\"country_code\": 32, \"vat_number\": \"0403200393\"}" :>
            Return(JsonDict(("country_code" :> JsonNum("32"))
                            @@ ("vat_number" :> JsonStr("0403200393")))))
    @@ ("{\"country_code\": \"BE\", \"vat_number\": 403200393}" :>
            Return(JsonDict(("country_code" :> JsonStr("BE"))
                            @@ ("vat_number" :> JsonNum("403200393")))))
    @@ ("{\"country_code\": \"be\", \"vat_number\": null}" :>
            Return(JsonDict(("country_code" :> JsonStr("be"))
                            @@ ("vat_number" :> JsonNull))))
    @@ ("{\"country_code\": \"be\", \"vat_number\": \"0403.200.393\"}" :>
            Return(JsonDict(("country_code" :> JsonStr("be"))
                            @@ ("vat_number" :> JsonStr("0403.200.393")))))
    @@ ("{\"country_code\": \"Nl\", \"vat_number\": \" 8000-45 67B01\", \"error\": \"x\"}" :>
            Return(JsonDict(("country_code" :> JsonStr("Nl"))
                            @@ ("vat_number" :> JsonStr(" 8000-45 67B01"))
                            @@ ("error" :> JsonStr("x")))))

\* data[key]
getitem(data, key) ==
    IF data.kind \in {"null", "num"} THEN Raise("object is not subscriptable", None)
    ELSE IF data.kind \in {"str", "list"} THEN Raise("indices must be integers", None)
    ELSE IF key \notin DOMAIN data.items THEN Raise("'" \o key \o "'", None)
    ELSE Return(data.items[key])

(* lines 14-27: the registry is called and the result written.  world      *)
(* tells what Client and checkVat do: raise, or answer with a response     *)
(* whose fields json.dumps can or cannot write.                            *)
vat_service(country_code, vat_number, world) ==
    IF world.client # None THEN Raise(world.client[1], None)
    ELSE IF world.fault # None THEN Raise(world.fault[1], None)
    ELSE IF ~ world.response.serializable
    THEN Raise("Object of type CompoundValue is not JSON serializable", None)
    ELSE Return([valid |-> world.response.valid,
                 country_code |-> country_code,
                 vat_number |-> vat_number,
                 name |-> IF world.response.name = None \/ world.response.name = Some("")
                          THEN "Not available" ELSE world.response.name[1],
                 address |-> IF world.response.address = None
                                \/ world.response.address = Some("")
                             THEN "Not available" ELSE world.response.address[1],
                 timestamp |-> world.now])

\* lines 10-11, then the call
vat_fields(country_code, vat_number, world) ==
    IF country_code.exc # None THEN country_code
    ELSE IF country_code.ret.kind # "str"
    THEN Raise("object has no attribute 'upper'", None)
    ELSE IF vat_number.exc # None THEN vat_number
    ELSE IF vat_number.ret.kind # "str"
    THEN Raise("expected string or bytes-like object", None)
    ELSE vat_service(upper(country_code.ret.v), clean_vat_number(vat_number.ret.v), world)

\* lines 9-27: the try body
vat_body(data, world) ==
    IF data.exc # None THEN data
    ELSE vat_fields(getitem(data.ret, "country_code"), getitem(data.ret, "vat_number"), world)

\* lines 29-30: the except clause
vat_error(body, world) ==
    IF body.exc # None
    THEN Return([error |-> body.exc[1], timestamp |-> world.now])
    ELSE body

BadVatPropagates(input_data, world) == vat_body(json_loads[input_data], world)

(* validate_vat_tool returns json.dumps of a dict of str, bool and None    *)
(* values; ret is that dict, the JSON object the returned text denotes.    *)
validate_vat_tool(input_data, world) ==
    vat_error(vat_body(json_loads[input_data], world), world)

VatResponses ==
    [valid : BOOLEAN, name : {None, Some(""), Some("Acme NV")},
     address : {None, Some("Marnixlaan 1")}, serializable : {TRUE}]
    \cup {[valid |-> TRUE, name |-> Some("Acme NV"), address |-> None,
           serializable |-> FALSE]}

VatWorlds ==
    {[client |-> None, fault |-> None, response |-> r, now |-> "2024-01-01T00:00:00"]
        : r \in VatResponses}
    \cup {[client |-> Some("HTTPSConnectionPool: Max retries exceeded"), fault |-> None,
           response |-> [valid |-> FALSE, name |-> None, address |-> None,
                         serializable |-> TRUE],
           now |-> "2024-01-01T00:00:00"],
          [client |-> None, fault |-> Some("MS_UNAVAILABLE"),
           response |-> [valid |-> FALSE, name |-> None, address |-> None,
                         serializable |-> TRUE],
           now |-> "2024-01-01T00:00:00"]}

InitVat ==
    /\ pc = "call"
    /\ input \in [input_data : DOMAIN json_loads, world : VatWorlds]
    /\ result = None

ValidateVat ==
    /\ pc = "call"
    /\ result' = validate_vat_tool(input.input_data, input.world)
    /\ pc' = "done"
    /\ UNCHANGED input

NextVat == ValidateVat

SpecVat == InitVat /\ [][NextVat]_vars

-----------------------------------------------------------------------------
(* _format_markdown and _format_text                                        *)
(*                                                                          *)
(* The values the formatters read: a str, None, a bool, a list or a dict.  *)
(* A dict keeps its items in insertion order, the order items() yields;    *)
(* a list is kept the same way with empty keys.                            *)

PyStr(s) == [kind |-> "str", s |-> s, b |-> FALSE, items |-> <<>>]

PyNone == [kind |-> "none", s |-> "", b |-> FALSE, items |-> <<>>]

PyBool(b) == [kind |-> "bool", s |-> "", b |-> b, items |-> <<>>]

PyList(values) ==
    [kind |-> "list", s |-> "", b |-> FALSE,
     items |-> [i \in 1..Len(values) |-> [key |-> "", value |-> values[i]]]]

\* pairs: the <<key, value>> pairs in insertion order
PyDict(pairs) ==
    [kind |-> "dict", s |-> "", b |-> FALSE,
     items |-> [i \in 1..Len(pairs) |-> [key |-> pairs[i][1], value |-> pairs[i][2]]]]

\* bool(v)
truthy(v) ==
    IF v.kind = "str" THEN v.s # ""
    ELSE IF v.kind = "none" THEN FALSE
    ELSE IF v.kind = "bool" THEN v.b
    ELSE v.items # <<>>

\* d.get(key): None when the key is absent
dict_get(d, key) ==
    IF \E i \in 1..Len(d.items) : d.items[i].key = key
    THEN Some(d.items[Min({i \in 1..Len(d.items) : d.items[i].key = key})].value)
    ELSE None

\* if d.get(key):
has_truthy(d, key) == dict_get(d, key) # None /\ truthy(dict_get(d, key)[1])

RECURSIVE replace_char(_, _, _)
\* s.replace(old, new) for one-character old
replace_char(s, old, new) ==
    IF s = "" THEN ""
    ELSE (IF Head(s) = old THEN new ELSE Head(s)) \o replace_char(Tail(s), old, new)

IsLetter(c) == c \in DOMAIN LowerTable \/ c \in DOMAIN UpperTable

RECURSIVE title_from(_, _)
\* str.title(): a letter after a letter is lower-cased, any other upper-cased
title_from(s, after_letter) ==
    IF s = "" THEN ""
    ELSE (IF ~ IsLetter(Head(s)) THEN Head(s)
          ELSE IF after_letter THEN LowerChar(Head(s))
          ELSE UpperChar(Head(s)))
         \o title_from(Tail(s), IsLetter(Head(s)))

title(s) == title_from(s, FALSE)

RECURSIVE escape_str(_, _)
\* the body of repr(s) between the quotes
escape_str(s, quote) ==
    IF s = "" THEN ""
    ELSE (IF Head(s) = "\\" THEN "\\\\"
          ELSE IF Head(s) = "\n" THEN "\\n"
          ELSE IF Head(s) = "\t" THEN "\\t"
          ELSE IF Head(s) = "\r" THEN "\\r"
          ELSE IF Head(s) = quote THEN "\\" \o quote
          ELSE Head(s))
         \o escape_str(Tail(s), quote)

\* repr(s): double quotes when s holds a single quote and no double quote
repr_str(s) ==
    IF contains(s, "'") /\ ~ contains(s, "\"")
    THEN "\"" \o escape_str(s, "\"") \o "\""
    ELSE "'" \o escape_str(s, "'") \o "'"

RECURSIVE py_repr(_)
py_repr(v) ==
    IF v.kind = "str" THEN repr_str(v.s)
    ELSE IF v.kind = "none" THEN "None"
    ELSE IF v.kind = "bool" THEN (IF v.b THEN "True" ELSE "False")
    ELSE IF v.kind = "list"
    THEN "[" \o JoinWith(", ", [i \in 1..Len(v.items) |-> py_repr(v.items[i].value)]) \o "]"
    ELSE "{" \o JoinWith(", ", [i \in 1..Len(v.items) |->
                    repr_str(v.items[i].key) \o ": " \o py_repr(v.items[i].value)]) \o "}"

\* f"{v}"
py_str(v) == IF v.kind = "str" THEN v.s ELSE py_repr(v)

\* f"{d.get(key, default)}"
format_get(d, key, default) ==
    IF dict_get(d, key) = None THEN default ELSE py_str(dict_get(d, key)[1])

\* the values of d[key], a list
list_of(d, key) ==
    [i \in 1..Len(dict_get(d, key)[1].items) |-> dict_get(d, key)[1].items[i].value]

\* lines 478 and 559: the keys left out of the company information
format_excluded == {"financial_data", "activities", "publications", "directors"}

MarkdownPublicationsLimit == 50

TextPublicationsLimit == 20

\* lines 477-479
md_identity(company_data) ==
    Flatten([i \in 1..Len(company_data.items) |->
        IF company_data.items[i].key \notin format_excluded
        THEN <<"**" \o title(replace_char(company_data.items[i].key, "_", " ")) \o "**: "
                \o py_str(company_data.items[i].value)>>
        ELSE <<>>])

\* lines 483-491
md_financial(company_data) ==
    IF ~ has_truthy(company_data, "financial_data") THEN <<>>
    ELSE <<"## Financial Data", "",
           "| Year End | Assets | Gross Margin | Operating Profit | Taxes | Equity | Debts |",
           "|----------|--------|--------------|------------------|-------|--------|-------|">>
         \o [i \in 1..Len(list_of(company_data, "financial_data")) |->
                "| " \o format_get(list_of(company_data, "financial_data")[i], "year_end", "")
                \o " | " \o format_get(list_of(company_data, "financial_data")[i], "assets", "")
                \o " | " \o format_get(list_of(company_data, "financial_data")[i], "gross_margin", "")
                \o " | " \o format_get(list_of(company_data, "financial_data")[i], "operating_profit", "")
                \o " | " \o format_get(list_of(company_data, "financial_data")[i], "taxes", "")
                \o " | " \o format_get(list_of(company_data, "financial_data")[i], "equity", "")
                \o " | " \o format_get(list_of(company_data, "financial_data")[i], "debts", "")
                \o " |"]
         \o <<"">>

\* lines 494-499 and 578-583: the bullets of the activities
activity_bullets(company_data) ==
    [i \in 1..Len(list_of(company_data, "activities")) |->
        "- " \o format_get(list_of(company_data, "activities")[i], "activity", "")
        \o " " \o format_get(list_of(company_data, "activities")[i], "nace_code", "")]

md_activities(company_data) ==
    IF ~ has_truthy(company_data, "activities") THEN <<>>
    ELSE <<"## Activities", "">> \o activity_bullets(company_data) \o <<"">>

\* str(n) for n >= 0
RECURSIVE int_str(_)
int_str(n) ==
    IF n < 10 THEN SubSeq("0123456789", n + 1, n + 1)
    ELSE int_str(n \div 10) \o SubSeq("0123456789", (n % 10) + 1, (n % 10) + 1)

\* lines 502-511
md_publications(company_data) ==
    IF ~ has_truthy(company_data, "publications") THEN <<>>
    ELSE <<"## Official Gazette Publications", "", "| Date | Type |", "|------|------|">>
         \o [i \in 1..Len(Take(list_of(company_data, "publications"),
                               MarkdownPublicationsLimit)) |->
                "| " \o format_get(list_of(company_data, "publications")[i], "date", "")
                \o " | " \o format_get(list_of(company_data, "publications")[i], "type", "")
                \o " |"]
         \o <<"">>
         \o (IF Len(list_of(company_data, "publications")) > MarkdownPublicationsLimit
             THEN <<"*... and "
                    \o int_str(Len(list_of(company_data, "publications"))
                               - MarkdownPublicationsLimit)
                    \o " more publications*">>
             ELSE <<>>)
         \o <<"">>

\* lines 517-522: the directors dict
md_directors_of(directors) ==
    IF dict_get(directors, "available") # None /\ truthy(dict_get(directors, "available")[1])
    THEN IF dict_get(directors, "directors") = None THEN <<>>
         ELSE [i \in 1..Len(list_of(directors, "directors")) |->
                "- " \o py_str(list_of(directors, "directors")[i])]
    ELSE <<"*" \o format_get(directors, "message", "Directors information not available")
           \o "*">>

\* lines 514-523
md_directors(company_data) ==
    IF ~ has_truthy(company_data, "directors") THEN <<>>
    ELSE <<"## Directors", "">>
         \o md_directors_of(dict_get(company_data, "directors")[1])
         \o <<"">>

\* lines 526-533
md_pdf_links(company_data) ==
    IF ~ has_truthy(company_data, "pdf_links") THEN <<>>
    ELSE <<"## PDF Documents", "", "| Title | Type | URL |", "|-------|------|-----|">>
         \o [i \in 1..Len(list_of(company_data, "pdf_links")) |->
                "| " \o format_get(list_of(company_data, "pdf_links")[i], "title", "Unknown")
                \o " | " \o format_get(list_of(company_data, "pdf_links")[i], "type", "document")
                \o " | " \o format_get(list_of(company_data, "pdf_links")[i], "url", "N/A")
                \o " |"]
         \o <<"">>

\* data.get('data', {})
company_data_of(data) ==
    IF dict_get(data, "data") = None THEN PyDict(<<>>) ELSE dict_get(data, "data")[1]

\* lines 468-533: the lines of a success envelope
md_success(company_data, now) ==
    <<"# " \o format_get(company_data, "company_name", "Company Information"),
      "*Scraped from Staatsblad Monitor on " \o now \o "*",
      "",
      "## Company Information",
      "">>
    \o md_identity(company_data) \o <<"">>
    \o md_financial(company_data)
    \o md_activities(company_data)
    \o md_publications(company_data)
    \o md_directors(company_data)
    \o md_pdf_links(company_data)

\* lines 461-539
_format_markdown(data, now) ==
    JoinWith("\n",
        IF has_truthy(data, "success")
        THEN md_success(company_data_of(data), now)
        ELSE <<"# Error", "**Error**: " \o format_get(data, "error", "Unknown error")>>)

RECURSIVE repeat(_, _)
\* s * n
repeat(s, n) == IF n = 0 THEN "" ELSE s \o repeat(s, n - 1)

\* lines 558-560
text_identity(company_data) ==
    Flatten([i \in 1..Len(company_data.items) |->
        IF company_data.items[i].key \notin format_excluded
        THEN <<title(replace_char(company_data.items[i].key, "_", " ")) \o ": "
                \o py_str(company_data.items[i].value)>>
        ELSE <<>>])

\* lines 564-575
text_financial(company_data) ==
    IF ~ has_truthy(company_data, "financial_data") THEN <<>>
    ELSE <<"FINANCIAL DATA:", repeat("-", 15)>>
         \o Flatten([i \in 1..Len(list_of(company_data, "financial_data")) |->
                <<"Year: " \o format_get(list_of(company_data, "financial_data")[i], "year_end", ""),
                  "  Assets: " \o format_get(list_of(company_data, "financial_data")[i], "assets", ""),
                  "  Gross Margin: "
                    \o format_get(list_of(company_data, "financial_data")[i], "gross_margin", ""),
                  "  Operating Profit: "
                    \o format_get(list_of(company_data, "financial_data")[i], "operating_profit", ""),
                  "  Taxes: " \o format_get(list_of(company_data, "financial_data")[i], "taxes", ""),
                  "  Equity: " \o format_get(list_of(company_data, "financial_data")[i], "equity", ""),
                  "  Debts: " \o format_get(list_of(company_data, "financial_data")[i], "debts", ""),
                  "">>])

\* lines 578-583
text_activities(company_data) ==
    IF ~ has_truthy(company_data, "activities") THEN <<>>
    ELSE <<"ACTIVITIES:", repeat("-", 10)>> \o activity_bullets(company_data) \o <<"">>

\* lines 586-593
text_publications(company_data) ==
    IF ~ has_truthy(company_data, "publications") THEN <<>>
    ELSE <<"PUBLICATIONS:", repeat("-", 12)>>
         \o [i \in 1..Len(Take(list_of(company_data, "publications"),
                               TextPublicationsLimit)) |->
                format_get(list_of(company_data, "publications")[i], "date", "")
                \o " - " \o format_get(list_of(company_data, "publications")[i], "type", "")]
         \o (IF Len(list_of(company_data, "publications")) > TextPublicationsLimit
             THEN <<"... and "
                    \o int_str(Len(list_of(company_data, "publications"))
                               - TextPublicationsLimit)
                    \o " more">>
             ELSE <<>>)
         \o <<"">>

\* lines 596-602
text_pdf_links(company_data) ==
    IF ~ has_truthy(company_data, "pdf_links") THEN <<>>
    ELSE <<"PDF DOCUMENTS:", repeat("-", 15)>>
         \o Flatten([i \in 1..Len(list_of(company_data, "pdf_links")) |->
                <<"- " \o format_get(list_of(company_data, "pdf_links")[i], "title", "Unknown")
                  \o " (" \o format_get(list_of(company_data, "pdf_links")[i], "type", "document")
                  \o ")",
                  "  URL: " \o format_get(list_of(company_data, "pdf_links")[i], "url", "N/A")>>])
         \o <<"">>

\* lines 548-602: the lines of a success envelope
text_success(company_data, now) ==
    <<"STAATSBALD MONITOR - COMPANY REPORT",
      "Generated: " \o now,
      repeat("=", 50),
      "",
      "COMPANY INFORMATION:",
      repeat("-", 20)>>
    \o text_identity(company_data) \o <<"">>
    \o text_financial(company_data)
    \o text_activities(company_data)
    \o text_publications(company_data)
    \o text_pdf_links(company_data)

\* lines 541-608
_format_text(data, now) ==
    JoinWith("\n",
        IF has_truthy(data, "success")
        THEN text_success(company_data_of(data), now)
        ELSE <<"ERROR:", format_get(data, "error", "Unknown error")>>)

(* The envelopes the formatters are run on: success envelopes as           *)
(* search_company builds them, with each part of the record empty or       *)
(* filled and the directors key present or absent, and error envelopes.    *)
FormatIdentityChoices ==
    { << <<"company_number", PyStr("0403200393")>>,
         <<"scraped_at", PyStr("2024-01-01T00:00:00")>> >>,
      << <<"company_number", PyStr("0403.200.393")>>,
         <<"scraped_at", PyStr("2024-01-01T00:00:00")>>,
         <<"company_name", PyStr("Acme NV")>> >>,
      << <<"company_number", PyStr("0403200393")>>,
         <<"scraped_at", PyStr("2024-01-01T00:00:00")>>,
         <<"company_name", PyStr("Beta's BV")>>,
         <<"legal_form", PyStr("BV")>>,
         <<"full_address", PyStr("Marnixlaan 1")>> >> }

FormatFinancialChoices ==
    { PyList(<<>>),
      PyList(<<PyDict(<< <<"year_end", PyStr("2023-12-31")>>, <<"assets", PyStr("1000")>>,
                         <<"gross_margin", PyStr("200")>>,
                         <<"operating_profit", PyStr("50")>>, <<"taxes", PyStr("10")>>,
                         <<"equity", PyStr("500")>>, <<"debts", PyStr("")>> >>)>>) }

FormatActivitiesChoices ==
    { PyList(<<>>),
      PyList(<<PyDict(<< <<"activity", PyStr("Groothandel (46900)")>>,
                         <<"nace_code", PyStr("46900")>> >>),
               PyDict(<< <<"activity", PyStr("Holding")>>, <<"nace_code", PyNone>> >>)>>) }

FormatPublicationsChoices ==
    { PyList(<<>>),
      PyList(<<PyDict(<< <<"date", PyStr("12-03-2021")>>, <<"type", PyStr("Ontslag")>>,
                         <<"full_text", PyStr("12-03-2021 Ontslag")>> >>)>>) }

FormatDirectorsChoices ==
    { <<>>,
      << <<"directors",
           PyDict(<< <<"available", PyBool(FALSE)>>,
                     <<"requires_registration", PyBool(TRUE)>>,
                     <<"message", PyStr("Directors information requires registration")>> >>)>> >>,
      << <<"directors",
           PyDict(<< <<"available", PyBool(TRUE)>>,
                     <<"requires_registration", PyBool(TRUE)>>,
                     <<"message", PyStr("Directors information requires registration")>>,
                     <<"directors", PyList(<<PyStr("Jan Peeters"), PyStr("An Maes")>>)>> >>)>> >>,
      << <<"directors",
           PyDict(<< <<"available", PyBool(TRUE)>>,
                     <<"requires_registration", PyBool(TRUE)>>,
                     <<"message", PyStr("Directors information requires registration")>>,
                     <<"directors", PyList(<<>>)>> >>)>> >> }

FormatPdfChoices ==
    { PyList(<<>>),
      PyList(<<PyDict(<< <<"title", PyStr("Annual report")>>,
                         <<"url", PyStr("https://staatsbladmonitor.be/docs/jaarrekening2023.pdf")>>,
                         <<"filename", PyStr("jaarrekening2023.pdf")>>,
                         <<"type", PyStr("annual_report")>> >>)>>) }

FormatMetadata ==
    PyDict(<< <<"source", PyStr("Staatsblad Monitor")>>, <<"country", PyStr("Belgium")>>,
              <<"request_time", PyStr("2024-01-01T00:00:00")>>,
              <<"company_number_input", PyStr("0403.200.393")>> >>)

FormatEnvelopes ==
    { PyDict(<< <<"success", PyBool(TRUE)>>,
                <<"data", PyDict(identity
                                 \o << <<"financial_data", financial>>,
                                       <<"activities", activities>>,
                                       <<"publications", publications>> >>
                                 \o directors
                                 \o << <<"pdf_links", pdf>> >>)>>,
                <<"metadata", FormatMetadata>> >>) :
        identity \in FormatIdentityChoices, financial \in FormatFinancialChoices,
        activities \in FormatActivitiesChoices, publications \in FormatPublicationsChoices,
        directors \in FormatDirectorsChoices, pdf \in FormatPdfChoices }
    \cup
    { PyDict(<< <<"success", PyBool(FALSE)>>, <<"error", PyStr("Connection refused")>>,
                <<"data", PyDict(<< <<"status", PyStr("ERROR")>>,
                                    <<"company_number", PyStr("0403.200.393")>> >>)>>,
                <<"metadata", FormatMetadata>> >>),
      PyDict(<< <<"success", PyBool(FALSE)>> >>) }

InitFormat ==
    /\ pc = "call"
    /\ input \in [data : FormatEnvelopes, now : {"2024-01-01 00:00:00"}]
    /\ result = None

\* f.write(self._format_markdown(data))
FormatMarkdown ==
    /\ pc = "call"
    /\ result' = _format_markdown(input.data, input.now)
    /\ pc' = "markdown"
    /\ UNCHANGED input

\* f.write(self._format_text(data))
FormatText ==
    /\ pc = "call"
    /\ result' = _format_text(input.data, input.now)
    /\ pc' = "text"
    /\ UNCHANGED input

NextFormat == FormatMarkdown \/ FormatText

SpecFormat == InitFormat /\ [][NextFormat]_vars

-----------------------------------------------------------------------------
(* The pages _extract_activities is run on: at most MaxActivities li       *)
(* elements, or a list of 10 to 12 of them, after, inside or before the    *)
(* section marker.                                                         *)
MaxActivities == 2

ActivityTexts ==
    { "Groothandel (46900)", "(nevenactiviteit)", " ", " Holding (123456) (6420)\n",
      "Bouw (4120", "IT (62010) (6202)" }

ActivityLongList ==
    << "Akkerbouw (0111)", "(hoofdactiviteit)", "Veeteelt (0141)", "", "Bosbouw (0210)",
       "Visserij (03110)", "Steenkool (05100)", "Aardolie (061)", "IJzererts (0710)",
       "Zand (08120)", "Turf (08920)", "Zout (0893)" >>

ActivityLists ==
    SeqsUpTo(ActivityTexts, MaxActivities)
    \cup {SubSeq(ActivityLongList, 1, n) : n \in 10..Len(ActivityLongList)}

ActivitySoups ==
    UNION {
        { <<Element("h3", "Activiteiten (NACE)"), Section("ul", "", items)>>,
          <<Section("ul", "", items)>>,
          <<Section("div", "nace-codes", items)>>,
          <<Section("ul", "", <<"NACE">> \o items)>>,
          <<Section("ul", "", items), Element("h3", "Activiteiten"),
            Section("ol", "", <<"Laatste (0111)">>)>> }
        : items \in ActivityLists}

InitActivities ==
    /\ pc = "call"
    /\ input \in [soup : ActivitySoups, fault : {0}]
    /\ result = None

\* data['activities'] = self._extract_activities(soup)
ExtractActivities ==
    /\ pc = "call"
    /\ result' = _extract_activities(input.soup, input.fault)
    /\ pc' = "done"
    /\ UNCHANGED input

NextActivities == ExtractActivities

SpecActivities == InitActivities /\ [][NextActivities]_vars

-----------------------------------------------------------------------------
(* C8: normalizing an already normalized identifier changes nothing: after *)
(* the second application the output equals its input, the first output.   *)
C8_CleanIdempotent == pc = "redone" => result = input[2]

C8_Witness ==
    /\ pc = "redone"
    /\ input[1] # input[2]
    /\ result # ""

(* C9 as stated: the normalized identifier is a digit-only string.         *)
C9_DigitOnly == pc = "done" => AllChars(result, Digits)

(* C9 amended: the normalized identifier holds no dot and no whitespace,   *)
(* has one character for each other character of the input, and is        *)
(* digit-only exactly when the input holds only digits, dots and           *)
(* whitespace.                                                             *)
C9_NoSeparators ==
    pc = "done" =>
        /\ \A i \in 1..Len(result) : Char(result, i) \notin ({"."} \cup Whitespace)
        /\ Len(result) = Cardinality({i \in 1..Len(input) :
                                Char(input, i) \notin ({"."} \cup Whitespace)})
        /\ AllChars(result, Digits) <=> AllChars(input, Digits \cup {"."} \cup Whitespace)

C9_Witness ==
    /\ pc = "done"
    /\ contains(input, "B")
    /\ contains(input, ".")
    /\ ~ AllChars(result, Digits)

CanonicalKeys == {key_mapping[k] : k \in DOMAIN key_mapping}

AllRows(soup) ==
    LET tables == find_all(soup, "table")
    IN  Flatten([t \in 1..Len(tables) |-> tables[t].rows])

RowsFor(soup, key) ==
    {i \in 1..Len(AllRows(soup)) :
        /\ Len(AllRows(soup)[i]) >= 2
        /\ TranslateKey(lower(strip(AllRows(soup)[i][1]))) = key}

(* C10: the value under a canonical key is the stripped second cell of the *)
(* last table row, in document order, with at least two cells whose        *)
(* lower-cased, stripped first cell is stored under that key (through the  *)
(* label table, or verbatim when the label is not in it); without such a   *)
(* row company_name is the heading's text when there is a heading, and the *)
(* key is absent otherwise.                                                *)
C10_LastRowWins ==
    pc = "done" =>
        \A key \in CanonicalKeys :
            LET hits == RowsFor(input.soup, key)
                last == CHOOSE i \in hits : \A j \in hits : j <= i
            IN  IF hits # {}
                THEN /\ key \in DOMAIN result.ret
                     /\ result.ret[key] = strip(AllRows(input.soup)[last][2])
                ELSE IF key = "company_name" /\ name_elem(input.soup) # None
                THEN /\ key \in DOMAIN result.ret
                     /\ result.ret[key] = strip(name_elem(input.soup)[1].text)
                ELSE key \notin DOMAIN result.ret

C10_Witness ==
    /\ pc = "done"
    /\ name_elem(input.soup) # None
    /\ Cardinality(RowsFor(input.soup, "company_name")) >= 2
    /\ Len(find_all(input.soup, "table")) = 2
    /\ result.ret["company_name"] = "Acme NV"
    /\ AllRows(input.soup)[1] = <<" VENNOOTSCHAPSNAAM\n", " Beta BV ">>

DataRows(soup) ==
    LET tables == find_all(soup, "table")
    IN  {tr \in (1..Len(tables)) \X (1..MaxFinRows) :
            /\ is_financial_table(tables[tr[1]])
            /\ tr[2] >= 2
            /\ tr[2] <= Len(tables[tr[1]].rows)
            /\ Len(tables[tr[1]].rows[tr[2]]) >= 6}

Before(a, b) == a[1] < b[1] \/ (a[1] = b[1] /\ a[2] <= b[2])

(* C3: the records are, in document order, one for each row after the      *)
(* first of a financial table that has at least 6 cells: the n-th record   *)
(* holds the stripped texts of cells 1 to 6 of the n-th such row, and as   *)
(* debts its 7th cell, or "" when the row has exactly 6 cells; rows with   *)
(* fewer than 6 cells and first rows have no record.                       *)
C3_OneRecordPerRow ==
    pc = "done" =>
        LET tables == find_all(input.soup, "table")
            rows == DataRows(input.soup)
        IN  /\ result.exc = None
            /\ Len(result.ret) = Cardinality(rows)
            /\ \A tr \in rows :
                LET n == Cardinality({x \in rows : Before(x, tr)})
                    cells == tables[tr[1]].rows[tr[2]]
                    rec == result.ret[n]
                IN  /\ rec.year_end = strip(cells[1])
                    /\ rec.assets = strip(cells[2])
                    /\ rec.gross_margin = strip(cells[3])
                    /\ rec.operating_profit = strip(cells[4])
                    /\ rec.taxes = strip(cells[5])
                    /\ rec.equity = strip(cells[6])
                    /\ Len(cells) = 6 => rec.debts = ""
                    /\ Len(cells) > 6 => rec.debts = strip(cells[7])

C3_Witness ==
    /\ pc = "done"
    /\ Len(result.ret) = 2
    /\ result.ret[1].debts = "300"
    /\ result.ret[2].debts = ""
    /\ \E r \in 2..Len(input.soup[1].rows) : Len(input.soup[1].rows[r]) = 5

(* C6: every emitted publication's full_text starts with a DD-MM-YYYY date *)
(* and its date is that leading date, so an entry whose text does not      *)
(* start with a date is not in the list.                                   *)
C6_LeadingDateOnly ==
    pc = "done" =>
        \A i \in 1..Len(result.ret) :
            /\ IsDateAt(result.ret[i].full_text, 1)
            /\ result.ret[i].date = SubSeq(result.ret[i].full_text, 1, 10)

NoDirectorsMarker(soup) ==
    \A i \in 1..Len(TextNodes(soup)) :
        /\ ~ contains(lower(TextNodes(soup)[i].s), "bestuurders")
        /\ ~ contains(lower(TextNodes(soup)[i].s), "directors")

(* C7: when no text node of the page matches Bestuurders or Directors,     *)
(* _extract_directors raises nothing and returns the default value:        *)
(* available false, the registration message, no directors key.            *)
C7_NoMarkerDefault ==
    (pc = "done" /\ NoDirectorsMarker(input.soup)) =>
        /\ result.exc = None
        /\ DOMAIN result.ret = {"available", "requires_registration", "message"}
        /\ result.ret.available = FALSE
        /\ result.ret.message = "Directors information requires registration"

C7_Witness ==
    /\ pc = "done"
    /\ NoDirectorsMarker(input.soup)
    /\ input.fault = 0
    /\ \E b \in 1..Len(input.soup) :
        /\ input.soup[b].text = "Bestuur en directie"
        /\ \E i \in 1..Len(input.soup[b].items) : strip(input.soup[b].items[i]) # ""
    /\ result.ret.available = FALSE

(* C4: the list of PDF links holds no two entries with the same url.       *)
C4_NoDuplicateUrl ==
    pc = "done" =>
        \A i, j \in 1..Len(result.ret) :
            i # j => result.ret[i].url # result.ret[j].url

SameUrl(u, v) == lower(u) = lower(v)

AnchorAndBareUrls(soup) ==
    LET hrefs == links_with_href(soup)
        bare == findall_pdf_urls(get_text(soup), 1)
    IN  {u \in {bare[i] : i \in 1..Len(bare)} :
            /\ Cardinality({k \in 1..Len(hrefs) : hrefs[k].href[1] = u}) = 1
            /\ \A k \in 1..Len(hrefs) :
                    (SameUrl(hrefs[k].href[1], u) \/ SameUrl(base_url \o hrefs[k].href[1], u)
                     \/ SameUrl(base_url \o "/" \o hrefs[k].href[1], u))
                        => hrefs[k].href[1] = u
            /\ \A i \in 1..Len(bare) : SameUrl(bare[i], u) => bare[i] = u}

(* C5: a URL that is the href of exactly one anchor and also occurs as     *)
(* bare text, and is the only URL of the page with its spelling up to      *)
(* letter case, has exactly one entry in the list (entries being matched   *)
(* to the URL up to letter case, as the anchor pass stores it lower-cased).*)
C5_OneEntryPerAnchorAndBareUrl ==
    pc = "done" =>
        \A u \in AnchorAndBareUrls(input.soup) :
            Cardinality({i \in 1..Len(result.ret) : SameUrl(result.ret[i].url, u)}) = 1

FetchFailed(world) == world.response.exc # None

StatusFailed(world) == ~ FetchFailed(world) /\ world.response.status >= 400

ParseFailed(world) ==
    ~ FetchFailed(world) /\ ~ StatusFailed(world) /\ ~ world.response.content.parses

(* C1: search_company raises nothing and returns an envelope whose success *)
(* is a boolean; success is false exactly when the fetch raised, the       *)
(* status was an error status or the body did not parse, and then error    *)
(* is that exception's message and the raw identifier is echoed.           *)
C1_AlwaysEnvelope ==
    pc = "done" =>
        LET world == input.world
            failed == FetchFailed(world) \/ StatusFailed(world) \/ ParseFailed(world)
        IN  /\ result.exc = None
            /\ result.ret.success \in BOOLEAN
            /\ (result.ret.success = FALSE) <=> failed
            /\ failed =>
                /\ FetchFailed(world) => result.ret.error = world.response.exc[1]
                /\ StatusFailed(world) =>
                        result.ret.error \in {"Client Error", "Server Error"}
                /\ ParseFailed(world) => result.ret.error = "parse error"
                /\ result.ret.data.company_number = input.company_number
                /\ result.ret.metadata.company_number_input = input.company_number

C1_Witness ==
    /\ pc = "done"
    /\ StatusFailed(input.world)
    /\ result.ret.success = FALSE
    /\ result.ret.error = "Client Error"
    /\ result.ret.data.company_number = "BE 0403 200"

IsPrefix(a, b) == Len(a) <= Len(b) /\ a = SubSeq(b, 1, Len(a))

CollectionKeys == {"financial_data", "activities", "publications", "directors", "pdf_links"}

(* C2: when the page was fetched and parsed, an exception inside one       *)
(* extractor leaves success true, leaves under every other extractor's     *)
(* keys what that extractor returns without a fault, and leaves under the  *)
(* failed extractor's keys a part of what it returns without a fault.      *)
C2_FailureContained ==
    (pc = "done" /\ ~ FetchFailed(input.world) /\ ~ StatusFailed(input.world)
        /\ ~ ParseFailed(input.world)) =>
        LET soup == input.world.response.content.soup
            faults == input.world.faults
            data == result.ret.data
            basic == _extract_basic_info(soup, 0).ret
            financial == _extract_financial_data(soup, 0).ret
            activities == _extract_activities(soup, 0).ret
            publications == _extract_publications(soup, 0).ret
            directors == _extract_directors(soup, 0).ret
            pdf == _extract_pdf_links(soup, 0).ret
        IN  /\ result.exc = None
            /\ result.ret.success = TRUE
            /\ CollectionKeys \subseteq DOMAIN data
            /\ DOMAIN data \subseteq DOMAIN basic \cup CollectionKeys \cup {"company_number", "scraped_at"}
            /\ faults["basic"] = 0 =>
                    \A k \in DOMAIN basic \ CollectionKeys : data[k] = basic[k]
            /\ IF faults["financial"] = 0 THEN data["financial_data"] = financial
               ELSE IsPrefix(data["financial_data"], financial)
            /\ IF faults["activities"] = 0 THEN data["activities"] = activities
               ELSE IsPrefix(data["activities"], activities)
            /\ IF faults["publications"] = 0 THEN data["publications"] = publications
               ELSE IsPrefix(data["publications"], publications)
            /\ IF faults["directors"] = 0 THEN data["directors"] = directors
               ELSE /\ DOMAIN default_directors_info \subseteq DOMAIN data["directors"]
                    /\ data["directors"].message = default_directors_info.message
            /\ IF faults["pdf"] = 0 THEN data["pdf_links"] = pdf
               ELSE IsPrefix(data["pdf_links"], pdf)

C2_Witness ==
    /\ pc = "done"
    /\ ~ FetchFailed(input.world) /\ ~ StatusFailed(input.world) /\ ~ ParseFailed(input.world)
    /\ input.world.faults["financial"] = 2
    /\ result.ret.success = TRUE
    /\ Len(result.ret.data["financial_data"]) = 2
    /\ Len(_extract_financial_data(input.world.response.content.soup, 0).ret) = 3
    /\ Len(result.ret.data["publications"]) = 2
    /\ result.ret.data["directors"].available = TRUE

\* the keyword sets in their priority order, each with its type
PdfTypePriority ==
    << [type |-> "annual_report", keywords |-> {"jaarrekening", "annual", "financial"}],
       [type |-> "articles_of_association", keywords |-> {"statuten", "articles", "constitution"}],
       [type |-> "official_publication", keywords |-> {"publicatie", "publication", "gazette"}],
       [type |-> "report", keywords |-> {"verslag", "report"}],
       [type |-> "balance_sheet", keywords |-> {"balans", "balance"}] >>

\* the keyword sets with a keyword in the lower-cased link text or URL
MatchingSets(link_text, url) ==
    {k \in 1..Len(PdfTypePriority) :
        \E keyword \in PdfTypePriority[k].keywords :
            contains(lower(link_text), keyword) \/ contains(lower(url), keyword)}

(* C11: _classify_pdf_type returns the type of the first keyword set, in   *)
(* the order annual_report, articles_of_association, official_publication, *)
(* report, balance_sheet, with a keyword in the lower-cased link text or   *)
(* URL, and 'document' when no set matches; so the type is one of six      *)
(* values and is annual_report whenever an annual-report term matches.     *)
C11_FirstMatchingSet ==
    pc = "done" =>
        LET hits == MatchingSets(input.link_text, input.url)
        IN  /\ result = IF hits = {} THEN "document" ELSE PdfTypePriority[Min(hits)].type
            /\ result \in {PdfTypePriority[k].type : k \in 1..Len(PdfTypePriority)}
                            \cup {"document"}
            /\ 1 \in hits => result = "annual_report"

C11_Witness ==
    /\ pc = "done"
    /\ {1, 4} \subseteq MatchingSets(input.link_text, input.url)
    /\ result = "annual_report"

MetadataFields ==
    {"source", "country", "request_time", "company_number_input", "company_number_clean", "url"}

(* C12: every envelope search_company returns, with success true or false, *)
(* has a metadata object with the six fields source, country, request     *)
(* timestamp, input identifier, normalized identifier and source URL.      *)
C12_MetadataSixFields ==
    pc = "done" => DOMAIN result.ret.metadata = MetadataFields

VatResultKeys == {"valid", "country_code", "vat_number", "name", "address", "timestamp"}

VatErrorKeys == {"error", "timestamp"}

(* C13: validate_vat_tool raises nothing, and the object it returns has    *)
(* either exactly the result keys valid, country_code, vat_number, name,   *)
(* address and timestamp, or exactly the error keys error and timestamp.   *)
C13_VatNeverRaises ==
    pc = "done" =>
        /\ result.exc = None
        /\ DOMAIN result.ret \in {VatResultKeys, VatErrorKeys}

C13_Witness ==
    /\ pc = "done"
    /\ json_loads[input.input_data].exc = None
    /\ json_loads[input.input_data].ret.kind = "dict"
    /\ "vat_number" \notin DOMAIN json_loads[input.input_data].ret.items
    /\ DOMAIN result.ret = VatErrorKeys

\* the parent of the Directors marker holds the registration notice
HasRegistrationNotice(soup) ==
    \E n \in {TextNodesInside(soup, find_string(soup, DirectorsPattern)[1])[i] :
                i \in 1..Len(TextNodesInside(soup, find_string(soup, DirectorsPattern)[1]))} :
        \E notice \in RegistrationPattern : contains(lower(n.s), lower(notice))

\* the non-empty texts of the li and tr elements inside the marker's parent
NamedDirectors(soup) ==
    {e \in {find_all_inside(soup, find_string(soup, DirectorsPattern)[1], {"li", "tr"})[i] :
              i \in 1..Len(find_all_inside(soup, find_string(soup, DirectorsPattern)[1],
                                           {"li", "tr"}))} :
        e.text # ""}

(* C14: with the Directors marker found and no registration notice in its  *)
(* parent, _extract_directors returns available = true only if a li or tr  *)
(* element inside the parent has non-empty text; with no such element it   *)
(* returns the default unavailable value.                                  *)
C14_AvailableOnlyWithNames ==
    (/\ pc = "done"
     /\ input.fault = 0
     /\ ~ NoDirectorsMarker(input.soup)
     /\ ~ HasRegistrationNotice(input.soup)) =>
        /\ result.ret.available = TRUE => NamedDirectors(input.soup) # {}
        /\ NamedDirectors(input.soup) = {} => result.ret = default_directors_info

(* C15: when an error is raised while _extract_financial_data processes    *)
(* one table of the page, the records of every other table are returned:   *)
(* those collected before it are kept and every later financial table      *)
(* still contributes one record for each of its data rows.                  *)
C15_TableErrorAbortsOnlyThatTable ==
    (/\ pc = "done"
     /\ result.ret.success
     /\ input.world.faults["financial"]
            \in 1..Len(find_all(input.world.response.content.soup, "table"))) =>
        Len(result.ret.data["financial_data"]) =
            Cardinality({tr \in DataRows(input.world.response.content.soup) :
                            tr[1] # input.world.faults["financial"]})

(* C16: in a success envelope data.company_number is the normalized        *)
(* identifier of metadata.company_number_clean, whatever rows the page     *)
(* holds, and the keys financial_data, activities, publications, directors *)
(* and pdf_links hold what their extractors returned.                      *)
C16_CompanyNumberIsClean ==
    (pc = "done" /\ result.ret.success) =>
        /\ result.ret.data["company_number"] = result.ret.metadata.company_number_clean
        /\ result.ret.data["financial_data"] =
                _extract_financial_data(input.world.response.content.soup,
                                        input.world.faults["financial"]).ret
        /\ result.ret.data["activities"] =
                _extract_activities(input.world.response.content.soup,
                                    input.world.faults["activities"]).ret
        /\ result.ret.data["publications"] =
                _extract_publications(input.world.response.content.soup,
                                      input.world.faults["publications"]).ret
        /\ result.ret.data["directors"] =
                _extract_directors(input.world.response.content.soup,
                                   input.world.faults["directors"]).ret
        /\ result.ret.data["pdf_links"] =
                _extract_pdf_links(input.world.response.content.soup,
                                   input.world.faults["pdf"]).ret

\* the line an identity field with that key makes in the rendering
IdentityLine(key) ==
    IF pc = "markdown"
    THEN "\n**" \o title(replace_char(key, "_", " ")) \o "**: "
    ELSE "\n" \o title(replace_char(key, "_", " ")) \o ": "

(* C17: in the Markdown and in the plain-text rendering of a success       *)
(* envelope the identity section has a line for every key of the record    *)
(* that is not a collection and no line for financial_data, activities,    *)
(* publications, directors or pdf_links.                                   *)
C17_IdentityExcludesCollections ==
    (pc \in {"markdown", "text"} /\ has_truthy(input.data, "success")) =>
        \A i \in 1..Len(company_data_of(input.data).items) :
            contains(result, IdentityLine(company_data_of(input.data).items[i].key))
                <=> company_data_of(input.data).items[i].key \notin CollectionKeys

\* the directors value of the record of a success envelope
DirectorsOf(data) == dict_get(company_data_of(data), "directors")[1]

(* C18: for a success envelope whose record has a directors value, the     *)
(* Markdown rendering and the plain-text rendering both show the           *)
(* directors: every name when they are available, the unavailable message  *)
(* otherwise.                                                              *)
C18_DirectorsInBothRenderings ==
    (/\ pc \in {"markdown", "text"}
     /\ has_truthy(input.data, "success")
     /\ has_truthy(company_data_of(input.data), "directors")) =>
        IF has_truthy(DirectorsOf(input.data), "available")
        THEN \A i \in 1..Len(list_of(DirectorsOf(input.data), "directors")) :
                contains(result, py_str(list_of(DirectorsOf(input.data), "directors")[i]))
        ELSE contains(result, dict_get(DirectorsOf(input.data), "message")[1].s)

\* the li elements _extract_activities inspects: the first 10 that follow
\* the parent of the first text node matching Activiteiten or NACE
InspectedItems(soup) ==
    IF find_string(soup, ActivitiesPattern) = None THEN <<>>
    ELSE Take(find_all_next(soup, find_string(soup, ActivitiesPattern)[1], {"li"}), 10)

\* the inspected items that make an entry
EmittedItems(soup) ==
    {i \in 1..Len(InspectedItems(soup)) :
        /\ InspectedItems(soup)[i].text # ""
        /\ Char(InspectedItems(soup)[i].text, 1) # "("}

\* the positions of s where a group of exactly n digits in parentheses starts
GroupsAt(s, n) ==
    {i \in 1..(Len(s) - n - 1) :
        /\ Char(s, i) = "("
        /\ AllChars(SubSeq(s, i + 1, i + n), Digits)
        /\ Char(s, i + n + 1) = ")"}

\* the number in the first parenthesised group of exactly 4 or 5 digits
FirstNaceGroup(s) ==
    IF GroupsAt(s, 4) \cup GroupsAt(s, 5) = {} THEN None
    ELSE IF Min(GroupsAt(s, 4) \cup GroupsAt(s, 5)) \in GroupsAt(s, 4)
    THEN Some(SubSeq(s, Min(GroupsAt(s, 4)) + 1, Min(GroupsAt(s, 4)) + 4))
    ELSE Some(SubSeq(s, Min(GroupsAt(s, 5)) + 1, Min(GroupsAt(s, 5)) + 5))

(* C19: _extract_activities returns, in document order, one entry for each *)
(* of the first 10 li elements after the marker's parent whose stripped    *)
(* text is non-empty and does not start with "(", so at most 10 entries;   *)
(* an entry's activity is that text and its nace_code the number in the    *)
(* text's first parenthesised group of exactly 4 or 5 digits, or None      *)
(* when the text has no such group.                                        *)
C19_ActivitiesFirstTen ==
    pc = "done" =>
        /\ result.exc = None
        /\ Len(result.ret) <= 10
        /\ Len(result.ret) = Cardinality(EmittedItems(input.soup))
        /\ \A i \in EmittedItems(input.soup) :
            LET entry == result.ret[Cardinality({j \in EmittedItems(input.soup) : j <= i})]
            IN  /\ entry.activity = InspectedItems(input.soup)[i].text
                /\ entry.nace_code = FirstNaceGroup(entry.activity)

C19_Witness ==
    /\ pc = "done"
    /\ find_string(input.soup, ActivitiesPattern) # None
    /\ Len(find_all_next(input.soup, find_string(input.soup, ActivitiesPattern)[1], {"li"})) > 10
    /\ Len(result.ret) < Cardinality(EmittedItems(input.soup)) + 2
    /\ \E i \in 1..Len(result.ret) : result.ret[i].nace_code # None
    /\ \E i \in 1..Len(result.ret) : result.ret[i].nace_code = None

====
